---- MODULE Spec2Model ----
(***************************************************************************)
(* A model of demquery.Query (src/demquery/demquery.py): construction of   *)
(* the raster source (__init__, _build_vrt) and the point query            *)
(* (query_points, _check_bounds, _query_point, _get_buffer_grid,           *)
(* _lon_lat_grid).                                                         *)
(*                                                                         *)
(* Conventions.  Geographic coordinates are integers in units of half a    *)
(* cell, so that cell edges and cell centres are both representable and    *)
(* the affine arithmetic is exact.  Python's None is the string "None".    *)
(* A numpy 2-D array is a record [rows, cols, v] with v[i][j] 1-based.     *)
(* An exception is a record [type, msg, args, where]: msg is the sequence *)
(* of the message's lines, args the values it carries, where the function *)
(* that raised it.                                                         *)
(***************************************************************************)
EXTENDS Integers, Sequences, FiniteSets, TLC

(* ------------------------------ bounds --------------------------------- *)

\* rows of the raster that the dataset reader serves
RasterHeight == 7
\* columns of the raster
RasterWidth == 8
\* longest list of points handed to query_points
MaxPoints == 2
\* number of path names of the file system, and longest dem_paths list
MaxPaths == 2

VARIABLES
    Existing,       \* file system: the set of paths that exist
    nodatavals,     \* dem.nodatavals: one entry per band of the raster
    holes,          \* cells of the raster that store the no-data sentinel
    band,           \* self.band
    dem_path,       \* self.dem_path
    constructed,    \* a Query object exists (its __init__ returned)
    dem_paths,      \* argument of the latest __init__ call
    ctorError,      \* exception the latest __init__ call raised
    mkdtempCalls,   \* tempfile.mkdtemp calls of the latest __init__ call
    buildVrtCalls,  \* gdal.BuildVRT calls of the latest __init__ call
    pc,             \* position of query_points: idle, check_bounds, query, done
    points,         \* argument of the current/latest query_points call
    interp_kind,    \* argument of the current/latest query_points call
    num_buffer,     \* local of query_points
    results,        \* the list the comprehension of query_points builds
    outcome,        \* none, returned, raised: how the latest call ended
    error,          \* exception the latest query_points call raised
    openHandles,    \* raster handles opened by rasterio.open and not closed
    reads           \* dem.read calls of the current/latest call, in order

envVars == <<Existing, nodatavals, holes>>
objVars == <<band, dem_path, constructed, dem_paths, ctorError, mkdtempCalls,
             buildVrtCalls>>
callVars == <<pc, points, interp_kind, num_buffer, results, outcome, error,
              openHandles, reads>>
vars == <<Existing, nodatavals, holes, band, dem_path, constructed, dem_paths,
          ctorError, mkdtempCalls, buildVrtCalls, pc, points, interp_kind,
          num_buffer, results, outcome, error, openHandles, reads>>

Max(a, b) == IF a >= b THEN a ELSE b
Min(a, b) == IF a <= b THEN a ELSE b

(* --------------------------- the environment --------------------------- *)

PathIds == 1..MaxPaths

\* value a raster stores in a cell that holds no measurement
Sentinel == [set |-> TRUE, val |-> -9999]
\* nodatavals entry of a band that declares no sentinel (Python None)
Undeclared == [set |-> FALSE, val |-> 0]

\* dem.transform: x = c + a*col, y = f + e*row (north-up, cell size 2 units)
Transform == [a |-> 2, b |-> 0, c |-> -20, d |-> 0, e |-> -2, f |-> 60]

\* the attributes of the open rasterio.DatasetReader
Dem == [height |-> RasterHeight, width |-> RasterWidth,
        transform |-> Transform, nodatavals |-> nodatavals]

\* the value band 1 stores at (row, col); distinct per cell
BandValue(row, col) ==
    IF <<row, col>> \in holes THEN Sentinel.val
    ELSE 100 + row * RasterWidth + col

\* Index with the quotient rounded up instead of down
IndexCeil(lon, lat) ==
    [row |-> 0 - ((lat - Transform.f) \div (0 - Transform.e)),
     col |-> 0 - ((Transform.c - lon) \div Transform.a)]

\* dem.index(lon, lat): inverse affine transform, math.floor
Index(lon, lat) ==
    [row |-> (Transform.f - lat) \div (0 - Transform.e),
     col |-> (lon - Transform.c) \div Transform.a]

\* dem.xy(row, col): forward affine transform at the cell centre
XY(row, col) ==
    <<Transform.c + Transform.a * col + Transform.a \div 2,
      Transform.f + Transform.e * row + Transform.e \div 2>>

\* dem.read(band, window=((minrow, maxrow), (mincol, maxcol))): a read that
\* is not boundless crops the window to the raster's extent
Read(minrow, maxrow, mincol, maxcol) ==
    LET r0 == Min(Max(minrow, 0), Dem.height)
        r1 == Max(0, Min(maxrow, Dem.height))
        c0 == Min(Max(mincol, 0), Dem.width)
        c1 == Max(0, Min(maxcol, Dem.width))
        nr == Max(r1 - r0, 0)
        nc == Max(c1 - c0, 0)
    IN  [rows |-> nr, cols |-> nc,
         v |-> [i \in 1..nr |-> [j \in 1..nc |->
                    BandValue(r0 + i - 1, c0 + j - 1)]]]

(* ------------------------------ exceptions ----------------------------- *)

NoError == [type |-> "None", msg |-> <<>>, args |-> <<>>, where |-> ""]

Reminder == "points should be provided in longitude, latitude order."
LonMsg == <<"longitude outside DEM bounds", Reminder>>
LatMsg == <<"latitude outside DEM bounds", Reminder>>

\* what a failing assert statement raises; msg is empty when the statement
\* gives no message
AssertionError(msg, where) ==
    [type |-> "AssertionError", msg |-> msg, args |-> <<>>, where |-> where]

NoDataException(lon, lat) ==
    [type |-> "NoDataException",
     msg |-> <<"Raster nodata value found near lon: {}, lat: {}">>,
     args |-> <<lon, lat>>, where |-> "_get_buffer_grid"]

FileNotFoundError(path) ==
    [type |-> "FileNotFoundError", msg |-> <<>>, args |-> <<path>>,
     where |-> "_build_vrt"]

VrtValueError ==
    [type |-> "ValueError", msg |-> <<"Unable to create virtual raster">>,
     args |-> <<>>, where |-> "_build_vrt"]

ModeValueError ==
    [type |-> "ValueError",
     msg |-> <<"interp_kind must be one of None, linear, cubic, quintic">>,
     args |-> <<>>, where |-> "query_points"]

\* what rasterio.open raises for a path that cannot be opened
RasterioIOError(path) ==
    [type |-> "RasterioIOError", msg |-> <<"No such file or directory">>,
     args |-> <<path>>, where |-> "query_points"]

(* ---------------------------- construction ----------------------------- *)

Unset == [kind |-> "unset", id |-> 0]
File(id) == [kind |-> "file", id |-> id]
\* os.path.join(tmpdir, 'dem.vrt')
VrtPath == [kind |-> "vrt", id |-> 0]

\* Path(dem_path).exists()
Exists(path) == path \in Existing

\* the loop of _build_vrt: index of the first path that does not exist, 0
\* when all exist
RECURSIVE FirstMissingFrom(_, _)
FirstMissingFrom(paths, i) ==
    IF i > Len(paths) THEN 0
    ELSE IF ~Exists(paths[i]) THEN i
    ELSE FirstMissingFrom(paths, i + 1)

\* FirstMissing reporting the last missing path instead of the first
RECURSIVE LastMissingFrom(_, _)
LastMissingFrom(paths, i) ==
    IF i = 0 THEN 0
    ELSE IF ~Exists(paths[i]) THEN i
    ELSE LastMissingFrom(paths, i - 1)

LastMissing(paths) == LastMissingFrom(paths, Len(paths))

FirstMissing(paths) == FirstMissingFrom(paths, 1)

\* NeedsVrt sending a single path to _build_vrt too
NeedsVrtAlways(paths) == Len(paths) >= 1

\* the test of __init__ that sends dem_paths to _build_vrt
NeedsVrt(paths) == Len(paths) > 1

\* the call variables of an object no query has run on
FreshCall ==
    /\ pc' = "idle"
    /\ points' = <<>>
    /\ interp_kind' = "None"
    /\ num_buffer' = 0
    /\ results' = <<>>
    /\ outcome' = "none"
    /\ error' = NoError
    /\ openHandles' = 0
    /\ reads' = <<>>

\* _build_vrt(dem_paths); vrtCreated is whether gdal.BuildVRT left the file
BuildVrt(paths, vrtCreated) ==
    LET m == FirstMissing(paths)
    IN  IF m # 0
        THEN /\ ctorError' = FileNotFoundError(paths[m])
             /\ mkdtempCalls' = 0
             /\ buildVrtCalls' = 0
             /\ constructed' = FALSE
             /\ dem_path' = Unset
        ELSE /\ mkdtempCalls' = 1
             /\ buildVrtCalls' = 1
             /\ IF vrtCreated
                THEN /\ ctorError' = NoError
                     /\ constructed' = TRUE
                     /\ dem_path' = VrtPath
                ELSE /\ ctorError' = VrtValueError
                     /\ constructed' = FALSE
                     /\ dem_path' = Unset

\* Query(dem_paths), band defaulted
Construct(paths, vrtCreated) ==
    /\ pc = "idle"
    /\ dem_paths' = paths
    /\ band' = 1
    /\ IF NeedsVrt(paths)
       THEN BuildVrt(paths, vrtCreated)
       ELSE /\ dem_path' = File(paths[1])
            /\ constructed' = TRUE
            /\ ctorError' = NoError
            /\ mkdtempCalls' = 0
            /\ buildVrtCalls' = 0
    /\ FreshCall
    /\ UNCHANGED envVars

(* ------------------------------ the query ------------------------------ *)

\* interp_kind: num_buffer
interp_allowed ==
    ("None" :> 0) @@ ("linear" :> 1) @@ ("cubic" :> 2) @@ ("quintic" :> 3)

\* rasterio.open succeeds on a file that exists and on the virtual raster
\* _build_vrt found on disk
CanOpen(path) ==
    \/ path.kind = "vrt"
    \/ path.kind = "file" /\ Exists(path.id)

\* CheckPoint with the upper limits exclusive
CheckPointStrict(point, nb) ==
    LET rc == Index(point[1], point[2])
    IN  IF ~(rc.row - nb >= 0) THEN AssertionError(LonMsg, "_check_bounds")
        ELSE IF ~(rc.row + nb < Dem.height)
        THEN AssertionError(<<>>, "_check_bounds")
        ELSE IF ~(rc.col - nb >= 0)
        THEN AssertionError(LatMsg, "_check_bounds")
        ELSE IF ~(rc.col + nb < Dem.width)
        THEN AssertionError(<<>>, "_check_bounds")
        ELSE NoError

\* the body of the loop of _check_bounds for one point: the exception the
\* first failing assert raises, NoError when all four pass
CheckPoint(point, nb) ==
    LET lon == point[1]
        lat == point[2]
        rc == Index(lon, lat)
        minrow == rc.row - nb
        maxrow == rc.row + nb
        mincol == rc.col - nb
        maxcol == rc.col + nb
    IN  IF ~(minrow >= 0) THEN AssertionError(LonMsg, "_check_bounds")
        ELSE IF ~(maxrow <= Dem.height)
        THEN AssertionError(<<>>, "_check_bounds")
        ELSE IF ~(mincol >= 0) THEN AssertionError(LatMsg, "_check_bounds")
        ELSE IF ~(maxcol <= Dem.width)
        THEN AssertionError(<<>>, "_check_bounds")
        ELSE NoError

RECURSIVE CheckBoundsFrom(_, _, _)
CheckBoundsFrom(pts, nb, i) ==
    IF i > Len(pts) THEN NoError
    ELSE LET e == CheckPoint(pts[i], nb)
         IN  IF e.type # "None" THEN e ELSE CheckBoundsFrom(pts, nb, i + 1)

\* CheckBoundsRaises looking at the first point of the batch only
CheckBoundsFirstOnly(pts, nb) ==
    IF pts = <<>> THEN NoError ELSE CheckPoint(pts[1], nb)

\* _check_bounds(dem, points, num_buffer): what it raises
CheckBoundsRaises(pts, nb) == CheckBoundsFrom(pts, nb, 1)

\* NoDataFound comparing the first cell of the window only
NoDataFoundFirstCell(val_arr) ==
    /\ band - 1 < Len(Dem.nodatavals)
    /\ Dem.nodatavals[band].set
    /\ val_arr.rows > 0
    /\ val_arr.cols > 0
    /\ val_arr.v[1][1] = Dem.nodatavals[band].val

\* the nodata check of _get_buffer_grid: np.any(val_arr == nodataval), with
\* a None nodataval equal to no cell and an IndexError passed over
NoDataFound(val_arr) ==
    IF band - 1 >= Len(Dem.nodatavals) THEN FALSE
    ELSE LET nodataval == Dem.nodatavals[band]
         IN  /\ nodataval.set
             /\ \E i \in 1..val_arr.rows : \E j \in 1..val_arr.cols :
                    val_arr.v[i][j] = nodataval.val

\* _lon_lat_grid(dem, minrow, maxrow, mincol, maxcol), maxrow and maxcol
\* exclusive as range() takes them
LonLatGrid(minrow, maxrow, mincol, maxcol) ==
    LET nr == Max(maxrow - minrow, 0)
        nc == Max(maxcol - mincol, 0)
    IN  [lons |-> [rows |-> nr, cols |-> nc,
                   v |-> [i \in 1..nr |-> [j \in 1..nc |->
                            XY(minrow + i - 1, mincol + j - 1)[1]]]],
         lats |-> [rows |-> nr, cols |-> nc,
                   v |-> [i \in 1..nr |-> [j \in 1..nc |->
                            XY(minrow + i - 1, mincol + j - 1)[2]]]]]

\* _get_buffer_grid(dem, point, num_buffer): the window it reads and either
\* the exception it raises or the array it returns
GetBufferGrid(point, nb) ==
    LET lon == point[1]
        lat == point[2]
        rc == Index(lon, lat)
        minrow == rc.row - nb
        maxrow == rc.row + nb + 1
        mincol == rc.col - nb
        maxcol == rc.col + nb + 1
        val_arr == Read(minrow, maxrow, mincol, maxcol)
        read == [window |-> <<minrow, maxrow, mincol, maxcol>>,
                 shape |-> <<val_arr.rows, val_arr.cols>>]
        grid == LonLatGrid(minrow, maxrow, mincol, maxcol)
    IN  IF NoDataFound(val_arr)
        THEN [error |-> NoDataException(lon, lat), read |-> read,
              arr |-> <<>>]
        ELSE IF <<val_arr.rows, val_arr.cols>> # <<2 * nb + 1, 2 * nb + 1>>
        THEN [error |-> AssertionError(<<"unexpected array shape">>,
                                       "_get_buffer_grid"),
              read |-> read, arr |-> <<>>]
        ELSE [error |-> NoError, read |-> read,
              arr |-> <<grid.lons, grid.lats, val_arr>>]

\* numpy's flatten of a 2-D array: row-major
Flatten(a) ==
    [k \in 1..(a.rows * a.cols) |->
        a.v[((k - 1) \div a.cols) + 1][((k - 1) % a.cols) + 1]]

\* interp2d(x, y, z, kind, bounds_error=True)(lon, lat)[0]: the library's
\* fit is not computed; its value is the application to these arguments
Interp2d(x, y, z, kind, lon, lat) ==
    [fn |-> "interp2d", x |-> x, y |-> y, z |-> z, kind |-> kind,
     at |-> <<lon, lat>>]

\* _query_point(dem, point, num_buffer, interp_kind)
QueryPoint(point, nb, kind) ==
    LET g == GetBufferGrid(point, nb)
    IN  IF g.error.type # "None"
        THEN [error |-> g.error, read |-> g.read, value |-> 0]
        ELSE IF kind = "None"
        THEN [error |-> NoError, read |-> g.read,
              value |-> g.arr[3].v[1][1]]
        ELSE [error |-> NoError, read |-> g.read,
              value |-> Interp2d(Flatten(g.arr[1]), Flatten(g.arr[2]),
                                 Flatten(g.arr[3]), kind,
                                 point[1], point[2])]

\* Collect adding the value at the front
CollectFront(list, value) == <<value>> \o list

\* the list comprehension of query_points adds a value at the end
Collect(list, value) == Append(list, value)

\* WithExit leaving the handle open
WithExitLeak(handles) == handles

\* leaving the with block of query_points closes the handle it opened
WithExit(handles) == handles - 1

\* query_points(points, interp_kind) up to and including rasterio.open
QueryPointsCall(pts, kind) ==
    /\ pc = "idle"
    /\ constructed
    /\ points' = pts
    /\ interp_kind' = kind
    /\ results' = <<>>
    /\ reads' = <<>>
    /\ IF kind \notin DOMAIN interp_allowed
       THEN /\ num_buffer' = -1
            /\ error' = ModeValueError
            /\ outcome' = "raised"
            /\ pc' = "done"
            /\ UNCHANGED openHandles
       ELSE /\ num_buffer' = interp_allowed[kind]
            /\ IF ~CanOpen(dem_path)
               THEN /\ error' = RasterioIOError(dem_path.id)
                    /\ outcome' = "raised"
                    /\ pc' = "done"
                    /\ UNCHANGED openHandles
               ELSE /\ error' = NoError
                    /\ outcome' = "none"
                    /\ pc' = "check_bounds"
                    /\ openHandles' = openHandles + 1
    /\ UNCHANGED <<envVars, objVars>>

\* self._check_bounds(dem, points, num_buffer=num_buffer)
CheckBounds ==
    /\ pc = "check_bounds"
    /\ LET e == CheckBoundsRaises(points, num_buffer)
       IN  IF e.type # "None"
           THEN /\ error' = e
                /\ outcome' = "raised"
                /\ pc' = "done"
                /\ openHandles' = WithExit(openHandles)
           ELSE /\ pc' = "query"
                /\ UNCHANGED <<error, outcome, openHandles>>
    /\ UNCHANGED <<envVars, objVars, points, interp_kind, num_buffer,
                   results, reads>>

\* one element of the list comprehension: self._query_point(dem, point, ...)
QueryPointStep ==
    /\ pc = "query"
    /\ Len(results) < Len(points)
    /\ LET q == QueryPoint(points[Len(results) + 1], num_buffer, interp_kind)
       IN  /\ reads' = Append(reads, q.read)
           /\ IF q.error.type # "None"
              THEN /\ error' = q.error
                   /\ outcome' = "raised"
                   /\ pc' = "done"
                   /\ openHandles' = WithExit(openHandles)
                   /\ UNCHANGED results
              ELSE /\ results' = Collect(results, q.value)
                   /\ UNCHANGED <<error, outcome, pc, openHandles>>
    /\ UNCHANGED <<envVars, objVars, points, interp_kind, num_buffer>>

\* the return of query_points, through the end of the with block
QueryPointsReturn ==
    /\ pc = "query"
    /\ Len(results) = Len(points)
    /\ outcome' = "returned"
    /\ pc' = "done"
    /\ openHandles' = WithExit(openHandles)
    /\ UNCHANGED <<envVars, objVars, points, interp_kind, num_buffer,
                   results, error, reads>>

\* the caller has taken the result or the exception of the call and goes
\* on (to its next call): the frame of query_points is gone, the handles
\* it left open are not
CallerContinues ==
    /\ pc = "done"
    /\ pc' = "idle"
    /\ points' = <<>>
    /\ interp_kind' = "None"
    /\ num_buffer' = 0
    /\ results' = <<>>
    /\ outcome' = "none"
    /\ error' = NoError
    /\ reads' = <<>>
    /\ UNCHANGED <<envVars, objVars, openHandles>>

(* ------------------------------- inputs -------------------------------- *)

CentreRow == RasterHeight \div 2
CentreCol == RasterWidth \div 2

\* the query points: the centres of the cells of one column and of one row
\* of the raster, continued two cells past each edge
ProbePoints ==
    {XY(r, CentreCol) : r \in -1..(RasterHeight + 1)}
    \cup {XY(CentreRow, c) : c \in -1..(RasterWidth + 1)}

RECURSIVE SeqsUpTo(_, _)
SeqsUpTo(S, n) ==
    IF n = 0 THEN {<<>>}
    ELSE LET shorter == SeqsUpTo(S, n - 1)
         IN  shorter \cup {Append(s, x) : s \in shorter, x \in S}

PointBatches == SeqsUpTo(ProbePoints, MaxPoints)

\* the recognized modes and one that is not
InterpKinds == DOMAIN interp_allowed \cup {"nearest"}

PathLists == SeqsUpTo(PathIds, MaxPaths) \ {<<>>}

\* the batches the construction specification queries with
ProbeBatches == {<<>>, <<XY(CentreRow, CentreCol)>>}

\* the rasters: without a no-data cell, or with one next to the centre
HoleChoices == {{}, {<<CentreRow, CentreCol - 1>>}}

\* a caller constructs a Query from some list of paths
NewQuery ==
    /\ pc = "idle"
    /\ \E paths \in PathLists, vrtCreated \in BOOLEAN :
           Construct(paths, vrtCreated)

\* a caller calls query_points on the Query it holds, with a batch of the
\* given set and some interp_kind
QueryPoints(batches) ==
    /\ pc = "idle"
    /\ constructed
    /\ \E pts \in batches, kind \in InterpKinds : QueryPointsCall(pts, kind)

(* --------------------------- specifications ---------------------------- *)

InitEnv ==
    /\ nodatavals \in {<<Sentinel>>, <<Undeclared>>}
    /\ holes \in HoleChoices

InitCall ==
    /\ pc = "idle"
    /\ points = <<>>
    /\ interp_kind = "None"
    /\ num_buffer = 0
    /\ results = <<>>
    /\ outcome = "none"
    /\ error = NoError
    /\ openHandles = 0
    /\ reads = <<>>

\* the state after Query([path 1]) on a file system where every path exists
Init ==
    /\ Existing = PathIds
    /\ InitEnv
    /\ band = 1
    /\ dem_paths = <<1>>
    /\ dem_path = File(1)
    /\ constructed = TRUE
    /\ ctorError = NoError
    /\ mkdtempCalls = 0
    /\ buildVrtCalls = 0
    /\ InitCall

Next ==
    \/ QueryPoints(PointBatches)
    \/ CheckBounds
    \/ QueryPointStep
    \/ QueryPointsReturn
    \/ CallerContinues

Spec == Init /\ [][Next]_vars

\* no Query constructed yet, on any file system
InitResolve ==
    /\ Existing \in SUBSET PathIds
    /\ nodatavals = <<Sentinel>>
    /\ holes = {}
    /\ band = 1
    /\ dem_paths = <<>>
    /\ dem_path = Unset
    /\ constructed = FALSE
    /\ ctorError = NoError
    /\ mkdtempCalls = 0
    /\ buildVrtCalls = 0
    /\ InitCall

NextResolve ==
    \/ NewQuery
    \/ QueryPoints(ProbeBatches)
    \/ CheckBounds
    \/ QueryPointStep
    \/ QueryPointsReturn
    \/ CallerContinues

SpecResolve == InitResolve /\ [][NextResolve]_vars

(* ------------------------------ properties ----------------------------- *)

\* the latest call got as far as opening the raster with a recognized mode
PastOpen ==
    /\ pc # "idle"
    /\ interp_kind \in DOMAIN interp_allowed
    /\ error.type # "RasterioIOError"

\* the buffered cell window of a point leaves the range 0..height, 0..width
OutOfBounds(point, nb) ==
    LET rc == Index(point[1], point[2])
    IN  \/ rc.row - nb < 0
        \/ rc.row + nb > RasterHeight
        \/ rc.col - nb < 0
        \/ rc.col + nb > RasterWidth

\* the latest call ended with the failure of the bounds check
BoundsFailure ==
    /\ pc = "done"
    /\ outcome = "raised"
    /\ error.type = "AssertionError"
    /\ error.where = "_check_bounds"

\* C1: when query_points returns, the list it returns has one elevation per
\* input point, and the i-th is the elevation _query_point computes for the
\* i-th point
C1_ResultsInInputOrder ==
    outcome = "returned" =>
        /\ Len(results) = Len(points)
        /\ \A i \in 1..Len(points) :
               results[i] =
                   QueryPoint(points[i], interp_allowed[interp_kind],
                              interp_kind).value

C1_Witness ==
    /\ outcome = "returned"
    /\ interp_kind = "linear"
    /\ Len(points) = 2
    /\ points[1] # points[2]
    /\ results[1] # results[2]

\* C2: a batch with a point that fails the bounds check, at any position,
\* never has a window read for any of its points, and its call ends with
\* the failure of the bounds check
C2_BoundsBeforeSampling ==
    (PastOpen /\ \E i \in 1..Len(points) : OutOfBounds(points[i], num_buffer))
        => /\ reads = <<>>
           /\ pc # "query"
           /\ pc = "done" => BoundsFailure

C2_Witness ==
    /\ BoundsFailure
    /\ Len(points) = 2
    /\ ~OutOfBounds(points[1], num_buffer)
    /\ OutOfBounds(points[2], num_buffer)
    /\ reads = <<>>

C4_WindowShape ==
    /\ \A k \in 1..Len(reads) :
           reads[k].shape = <<2 * num_buffer + 1, 2 * num_buffer + 1>>
    /\ ~(error.type = "AssertionError" /\ error.where = "_get_buffer_grid")

\* the window of a point, cut to the raster, holds a cell that stores the
\* sentinel
WindowHasSentinel(point, nb) ==
    LET rc == Index(point[1], point[2])
    IN  \E cell \in holes :
            /\ cell[1] \in (rc.row - nb)..(rc.row + nb)
            /\ cell[2] \in (rc.col - nb)..(rc.col + nb)

\* C5: when the band declares a sentinel and the window sampled for a point
\* holds it, the call has raised NoDataException for that point, carrying
\* its coordinates, and no value was produced for it
C5_NoDataRaised ==
    \A k \in 1..Len(reads) :
        (nodatavals[band].set /\ WindowHasSentinel(points[k], num_buffer))
            => /\ pc = "done"
               /\ outcome = "raised"
               /\ error.type = "NoDataException"
               /\ error.args = <<points[k][1], points[k][2]>>
               /\ Len(results) = k - 1
               /\ Len(reads) = k

C5_Witness ==
    /\ error.type = "NoDataException"
    /\ interp_kind = "linear"
    /\ Len(results) = 1
    /\ Len(reads) = 2

\* C6: the handle query_points opens is open while the call runs and closed
\* when it has ended, however it ended, so none is open when a call starts
C6_HandleReleased ==
    /\ pc \in {"idle", "done"} => openHandles = 0
    /\ pc \in {"check_bounds", "query"} => openHandles = 1

C6_Witness ==
    /\ pc = "done"
    /\ outcome = "raised"
    /\ error.type = "NoDataException"
    /\ reads # <<>>
    /\ openHandles = 0

\* the first point of the batch that is out of bounds
FirstOut ==
    CHOOSE i \in 1..Len(points) :
        /\ OutOfBounds(points[i], num_buffer)
        /\ \A j \in 1..(i - 1) : ~OutOfBounds(points[j], num_buffer)

\* the assertion that point fails first is one on its rows
RowViolated(point, nb) ==
    LET rc == Index(point[1], point[2])
    IN  rc.row - nb < 0 \/ rc.row + nb > RasterHeight

\* C7: the failure of the bounds check carries a message that names the
\* axis violated (rows run along latitude, columns along longitude) and
\* reminds of the longitude, latitude order, for each of the four
\* violations
C7_MessageNamesAxis ==
    BoundsFailure =>
        error.msg = IF RowViolated(points[FirstOut], num_buffer)
                    THEN LatMsg ELSE LonMsg

\* C8: a construction from several paths of which one is missing raises
\* FileNotFoundError with the first missing path, and calls neither
\* tempfile.mkdtemp nor gdal.BuildVRT
C8_MissingPathFailsFirst ==
    (Len(dem_paths) > 1 /\ \E i \in 1..Len(dem_paths) : dem_paths[i] \notin Existing)
        => /\ ~constructed
           /\ ctorError.type = "FileNotFoundError"
           /\ \E i \in 1..Len(dem_paths) :
                  /\ dem_paths[i] \notin Existing
                  /\ \A j \in 1..(i - 1) : dem_paths[j] \in Existing
                  /\ ctorError.args = <<dem_paths[i]>>
           /\ mkdtempCalls = 0
           /\ buildVrtCalls = 0

C8_Witness ==
    /\ Len(dem_paths) = 2
    /\ dem_paths[1] \in Existing
    /\ dem_paths[2] \notin Existing
    /\ ctorError.type = "FileNotFoundError"

C10_CentreRoundTrip ==
    interp_kind = "None" =>
        \A k \in 1..Len(reads) :
            \A r \in 0..(RasterHeight - 1), c \in 0..(RasterWidth - 1) :
                (points[k] = XY(r, c) /\ BandValue(r, c) # Sentinel.val)
                    => /\ reads[k] = [window |-> <<r, r + 1, c, c + 1>>,
                                      shape |-> <<1, 1>>]
                       /\ Len(results) >= k
                       /\ results[k] = BandValue(r, c)

C10_Witness ==
    /\ outcome = "returned"
    /\ interp_kind = "None"
    /\ Len(points) = 2
    /\ points[1] = XY(0, CentreCol)
    /\ points[2] = XY(CentreRow, RasterWidth - 1)
    /\ results = <<BandValue(0, CentreCol), BandValue(CentreRow, RasterWidth - 1)>>

====
